---- MODULE Spec2Model ----
(***************************************************************************)
(* SampleDecodeRTSP.py: a driver that starts one decode worker process per *)
(* URL and joins them, the stream prober get_stream_params, and the decode *)
(* loop of rtsp_client with its adaptive read size.                        *)
(*                                                                         *)
(* Sizes are byte counts.  A pipe is modelled by the number of bytes the   *)
(* repacketizing subprocess will still deliver before it closes its end;   *)
(* the decoder is an external collaborator whose outcome for a packet      *)
(* (surface and bsl, no surface, HwResetException, any other exception)    *)
(* is chosen nondeterministically.                                         *)
(***************************************************************************)
EXTENDS Integers, Sequences, FiniteSets, TLC

(* ---------------------------- bounds ----------------------------------- *)
MaxUrls == 2        \* most URLs on the command line
MaxTail == 4        \* pipe contents: up to MaxTail bytes beside a full first read
MaxBsl  == 2        \* small values of pkt_data.bsl tried (beside the large ones)
MaxFps  == 2        \* largest integer frame rate of a probed stream

(* ------------------------ program constants ---------------------------- *)
InitReadSize == 4096

None == << >>
Some(x) == << x >>
IsSome(o) == Len(o) = 1
Val(o) == o[1]

Min(a, b) == IF a < b THEN a ELSE b

Workers == 1..MaxUrls

(* ------------------------- the environment ----------------------------- *)
\* what av.open(url) reports for the first video stream, and how many bytes
\* ffmpeg will write to its stdout before closing it
CodecNames == {"h264", "hevc", "vp9"}
PixFmts    == {"yuv420p", "yuv444p", "yuv422p"}
Rates      == {<<1, 2>>, <<5, 2>>} \cup {<<n, 1>> : n \in 1..MaxFps}
PipeSizes  == (0..MaxTail) \cup {InitReadSize + t : t \in 0..MaxTail}

MkStream(c, p, r, n) ==
    [codec_name |-> c, pix_fmt |-> p, width |-> 1920, height |-> 1080,
     framerate |-> r, nbytes |-> n]

LoopStreams ==
    {MkStream(c, p, r, n) : c \in CodecNames, p \in PixFmts,
                            r \in Rates, n \in PipeSizes}

DriverStreams ==
    {MkStream("h264", "yuv420p", <<1, 1>>, 2),
     MkStream("vp9", "yuv420p", <<1, 1>>, 0)}

DefaultStream == MkStream("h264", "yuv420p", <<1, 1>>, 0)

\* outcomes of nvdec.DecodeSurfaceFromPacket for one packet
BslSet == (0..MaxBsl) \cup {InitReadSize, InitReadSize + 1}
NoOutcome == [kind |-> "none", bsl |-> 0]
Outcomes ==
    {[kind |-> "surface", bsl |-> b] : b \in BslSet}
    \cup {[kind |-> "empty", bsl |-> 0],
          [kind |-> "hwreset", bsl |-> 0],
          [kind |-> "error", bsl |-> 0]}

\* command lines: program name, then the arguments
GpuArgs == {"0", "1", "gpu0"}
UrlArgs == {"rtsp://a", "rtsp://b"}
RECURSIVE UrlLists(_)
UrlLists(n) ==
    IF n = 0 THEN {<< >>}
    ELSE UrlLists(n - 1) \cup
         {Append(l, u) : l \in {m \in UrlLists(n - 1) : Len(m) = n - 1},
                         u \in UrlArgs}
ArgvSet(n) ==
    {<<"SampleDecodeRTSP.py">>}
    \cup {<<"SampleDecodeRTSP.py", g>> \o l : g \in GpuArgs, l \in UrlLists(n)}

VARIABLES
    argv,        \* sys.argv (1-based here: argv[1] is the program name)
    stream,      \* environment: the stream behind the i-th URL
    dpc,         \* position of the driver
    gpuID,       \* Some(int) once parsed
    urls,        \* the list built from argv
    pool,        \* started Process objects, in start order
    joined,      \* number of pool entries whose join() has returned
    exitStatus,  \* Some(status) once the driver process has ended
    wpc,         \* position of worker i
    params,      \* worker i: result of get_stream_params
    proc,        \* worker i: the ffmpeg subprocess (cmd, bytes left on stdout)
    nvdec,       \* worker i: the decoder instance
    read_size, rt, fd,   \* worker i: the loop state
    bits,        \* worker i: length of the chunk last read
    reads,       \* worker i: lengths of the non-empty chunks read, in order
    packets,     \* worker i: lengths of the packets submitted, in order
    decoded,     \* worker i: outcome of the last decode call (surf, pkt_data.bsl)
    exc,         \* worker i: the exception that ended the process, if any
    out,         \* worker i: lines printed
    surfs        \* worker i: number of non-empty surfaces decoded so far

dvars == <<argv, stream, dpc, gpuID, urls, pool, joined, exitStatus>>
wvars == <<wpc, params, proc, nvdec, read_size, rt, fd, bits, reads, packets,
           decoded, exc, out, surfs>>
vars  == <<argv, stream, dpc, gpuID, urls, pool, joined, exitStatus,
           wpc, params, proc, nvdec, read_size, rt, fd, bits, reads, packets,
           decoded, exc, out, surfs>>

(* --------------------------- pure functions ---------------------------- *)
\* int(sys.argv[1]) on the arguments of GpuArgs: None stands for ValueError
ParseInt(s) ==
    CASE s = "0" -> Some(0)
      [] s = "1" -> Some(1)
      [] OTHER   -> None

\* a prober that maps every accepted pixel format to NV12
get_stream_params_AllNV12(s) ==
    LET is_h264 == s.codec_name = "h264"
        is_hevc == s.codec_name = "hevc"
        is_yuv420 == s.pix_fmt = "yuv420p"
        is_yuv444 == s.pix_fmt = "yuv444p"
    IN  IF ~is_h264 /\ ~is_hevc
        THEN [raised |-> Some(<<"Unsupported codec: ", s.codec_name,
                                 ". Only H.264 and HEVC are supported in this sample.">>),
              ret |-> None]
        ELSE IF ~is_yuv420 /\ ~is_yuv444
        THEN [raised |-> Some(<<"Unsupported pixel format: ", s.pix_fmt,
                                 ". Only YUV420 and YUV444 are supported in this sample.">>),
              ret |-> None]
        ELSE [raised |-> None,
              ret |-> Some([width |-> s.width, height |-> s.height,
                            framerate |-> s.framerate,
                            codec |-> IF is_h264 THEN "H264" ELSE "HEVC",
                            format |-> "NV12"])]

\* get_stream_params: raised = None and ret = Some(params), or the ValueError
get_stream_params(s) ==
    LET is_h264 == s.codec_name = "h264"
        is_hevc == s.codec_name = "hevc"
        is_yuv420 == s.pix_fmt = "yuv420p"
        is_yuv444 == s.pix_fmt = "yuv444p"
    IN  IF ~is_h264 /\ ~is_hevc
        THEN [raised |-> Some(<<"Unsupported codec: ", s.codec_name,
                                 ". Only H.264 and HEVC are supported in this sample.">>),
              ret |-> None]
        ELSE IF ~is_yuv420 /\ ~is_yuv444
        THEN [raised |-> Some(<<"Unsupported pixel format: ", s.pix_fmt,
                                 ". Only YUV420 and YUV444 are supported in this sample.">>),
              ret |-> None]
        ELSE [raised |-> None,
              ret |-> Some([width |-> s.width, height |-> s.height,
                            framerate |-> s.framerate,
                            codec |-> IF is_h264 THEN "H264" ELSE "HEVC",
                            format |-> IF is_yuv420 THEN "NV12" ELSE "YUV444"])]

\* the ffmpeg command line built from the url and the codec
FfmpegCmd(url, c) ==
    LET codec_name == IF c = "H264" THEN "h264" ELSE "hevc"
    IN  <<"ffmpeg", "-hide_banner", "-i", url, "-c:v", "copy",
          "-bsf:v", <<codec_name, "_mp4toannexb,dump_extra=all">>,
          "-f", codec_name, "pipe:1">>

\* nvc.PyNvDecoder(w, h, f, c, g); id tells the instances of a worker apart
PyNvDecoder(w, h, f, c, g, id) ==
    [width |-> w, height |-> h, format |-> f, codec |-> c, gpu_id |-> g,
     id |-> id]

\* the quotient the wrong way round: int(fd / rt)
AvgReadSize_Swapped(r, f) == f \div r

\* a quotient taken over one frame too many
AvgReadSize_OffByOne(r, f) == r \div (f + 1)

\* int(rt / fd)
AvgReadSize(r, f) == r \div f

\* the comparison reversed: the read size follows the larger value
Tighten_Max(rs, bsl) == IF bsl > rs THEN bsl ELSE rs

\* the assignment without its guard: read_size = pkt_data.bsl
Tighten_Unguarded(rs, bsl) == bsl

\* if pkt_data.bsl < read_size: read_size = pkt_data.bsl
Tighten(rs, bsl) == IF bsl < rs THEN bsl ELSE rs

\* len(proc.stdout.read(read_size)) with avail bytes left before end of file
ReadLen(rs, avail) == Min(rs, avail)

\* the frame rate rounded up instead of truncated
IntFps_RoundsUp(r) == (r[1] + r[2] - 1) \div r[2]

\* int(params['framerate'])
IntFps(r) == r[1] \div r[2]

(* ------------------------------ Init ----------------------------------- *)
InitWith(args, streams) ==
    /\ argv \in args
    /\ \E st \in [1..(Len(argv) - 2) -> streams] :
          stream = [i \in Workers |->
                      IF i <= Len(argv) - 2 THEN st[i] ELSE DefaultStream]
    /\ dpc = "main"
    /\ gpuID = None
    /\ urls = << >>
    /\ pool = << >>
    /\ joined = 0
    /\ exitStatus = None
    /\ wpc = [i \in Workers |-> "NotStarted"]
    /\ params = [i \in Workers |-> None]
    /\ proc = [i \in Workers |-> None]
    /\ nvdec = [i \in Workers |-> None]
    /\ read_size = [i \in Workers |-> 0]
    /\ rt = [i \in Workers |-> 0]
    /\ fd = [i \in Workers |-> 0]
    /\ bits = [i \in Workers |-> 0]
    /\ reads = [i \in Workers |-> << >>]
    /\ packets = [i \in Workers |-> << >>]
    /\ decoded = [i \in Workers |-> NoOutcome]
    /\ exc = [i \in Workers |-> None]
    /\ out = [i \in Workers |-> << >>]
    /\ surfs = [i \in Workers |-> 0]

\* the driver with up to MaxUrls URLs
Init == InitWith(ArgvSet(MaxUrls), DriverStreams)

\* one worker at most, over every kind of stream
InitLoop == InitWith(ArgvSet(1), LoopStreams)

(* ----------------------------- the driver ------------------------------ *)
Terminated(i) == wpc[i] \in {"Stopped", "Failed", "Crashed"}

\* the test off by one: len(sys.argv) < 2
TooFewArgs_OffByOne(a) == Len(a) < 2

\* len(sys.argv) < 3
TooFewArgs(a) == Len(a) < 3

\* if(len(sys.argv) < 3): print(...); exit(1)
UsageExit ==
    /\ dpc = "main"
    /\ TooFewArgs(argv)
    /\ dpc' = "usage"
    /\ exitStatus' = Some(1)
    /\ UNCHANGED <<argv, stream, gpuID, urls, pool, joined>>
    /\ UNCHANGED wvars

\* gpuID = int(sys.argv[1]); urls = sys.argv[2:]
ParseArgs ==
    /\ dpc = "main"
    /\ ~TooFewArgs(argv)
    /\ LET g == ParseInt(argv[2])
       IN  IF IsSome(g)
           THEN /\ gpuID' = g
                /\ urls' = SubSeq(argv, 3, Len(argv))
                /\ dpc' = "start"
                /\ UNCHANGED exitStatus
           ELSE /\ dpc' = "crashed"
                /\ exitStatus' = Some(1)
                /\ UNCHANGED <<gpuID, urls>>
    /\ UNCHANGED <<argv, stream, pool, joined>>
    /\ UNCHANGED wvars

\* client = Process(target=rtsp_client, args=(url, name, gpuID));
\* client.start(); pool.append(client)
StartWorker ==
    /\ dpc = "start"
    /\ Len(pool) < Len(urls)
    /\ LET k == Len(pool) + 1
       IN  /\ pool' = Append(pool, [url |-> urls[k], name |-> k,
                                    gpu_id |-> Val(gpuID)])
           /\ wpc' = [wpc EXCEPT ![k] = "Starting"]
           /\ dpc' = IF k = Len(urls) THEN "join" ELSE "start"
    /\ UNCHANGED <<argv, stream, gpuID, urls, joined, exitStatus>>
    /\ UNCHANGED <<params, proc, nvdec, read_size, rt, fd, bits, reads,
                   packets, decoded, exc, out, surfs>>

\* a join that returns whether or not the process has ended
JoinWorker_NoWait ==
    /\ dpc = "join"
    /\ joined < Len(pool)
    /\ joined' = joined + 1
    /\ IF joined + 1 = Len(pool)
       THEN dpc' = "done" /\ exitStatus' = Some(0)
       ELSE UNCHANGED <<dpc, exitStatus>>
    /\ UNCHANGED <<argv, stream, gpuID, urls, pool>>
    /\ UNCHANGED wvars

\* client.join() returns for the next entry of pool
JoinWorker ==
    /\ dpc = "join"
    /\ joined < Len(pool)
    /\ Terminated(joined + 1)
    /\ joined' = joined + 1
    /\ IF joined + 1 = Len(pool)
       THEN dpc' = "done" /\ exitStatus' = Some(0)
       ELSE UNCHANGED <<dpc, exitStatus>>
    /\ UNCHANGED <<argv, stream, gpuID, urls, pool>>
    /\ UNCHANGED wvars

(* ----------------------------- a worker -------------------------------- *)
\* a worker that launches ffmpeg before it probes the stream
Probe_LaunchFirst(i) ==
    /\ wpc[i] = "Starting"
    /\ proc' = [proc EXCEPT ![i] =
                  Some([cmd |-> FfmpegCmd(pool[i].url, "H264"),
                        stdout |-> stream[i].nbytes])]
    /\ LET r == get_stream_params(stream[i])
       IN  IF IsSome(r.raised)
           THEN /\ wpc' = [wpc EXCEPT ![i] = "Failed"]
                /\ exc' = [exc EXCEPT ![i] = Some(<<"ValueError", Val(r.raised)>>)]
                /\ UNCHANGED params
           ELSE /\ wpc' = [wpc EXCEPT ![i] = "Launched"]
                /\ params' = [params EXCEPT ![i] = r.ret]
                /\ UNCHANGED exc
    /\ UNCHANGED dvars
    /\ UNCHANGED <<nvdec, read_size, rt, fd, bits, reads, packets, decoded, out, surfs>>

\* params = get_stream_params(url)
Probe(i) ==
    /\ wpc[i] = "Starting"
    /\ LET r == get_stream_params(stream[i])
       IN  IF IsSome(r.raised)
           THEN /\ wpc' = [wpc EXCEPT ![i] = "Failed"]
                /\ exc' = [exc EXCEPT ![i] = Some(<<"ValueError", Val(r.raised)>>)]
                /\ UNCHANGED params
           ELSE /\ wpc' = [wpc EXCEPT ![i] = "Probed"]
                /\ params' = [params EXCEPT ![i] = r.ret]
                /\ UNCHANGED exc
    /\ UNCHANGED dvars
    /\ UNCHANGED <<proc, nvdec, read_size, rt, fd, bits, reads, packets,
                   decoded, out, surfs>>

\* proc = subprocess.Popen(cmd, stdout=subprocess.PIPE)
Popen(i) ==
    /\ wpc[i] = "Probed"
    /\ proc' = [proc EXCEPT ![i] =
                  Some([cmd |-> FfmpegCmd(pool[i].url, Val(params[i]).codec),
                        stdout |-> stream[i].nbytes])]
    /\ wpc' = [wpc EXCEPT ![i] = "Launched"]
    /\ UNCHANGED dvars
    /\ UNCHANGED <<params, nvdec, read_size, rt, fd, bits, reads, packets,
                   decoded, exc, out, surfs>>

\* a decoder built with width and height exchanged
NewDecoder_Swapped(i) ==
    LET p == Val(params[i])
        id == IF IsSome(nvdec[i]) THEN Val(nvdec[i]).id + 1 ELSE 1
    IN  PyNvDecoder(p.height, p.width, p.format, p.codec, pool[i].gpu_id, id)

\* the decoder of worker i, built from its params and gpu_id
NewDecoder(i) ==
    LET p == Val(params[i])
        id == IF IsSome(nvdec[i]) THEN Val(nvdec[i]).id + 1 ELSE 1
    IN  PyNvDecoder(p.width, p.height, p.format, p.codec, pool[i].gpu_id, id)

\* nvdec = nvc.PyNvDecoder(w, h, f, c, g); read_size = 4096; rt = 0; fd = 0
CreateDecoder(i) ==
    /\ wpc[i] = "Launched"
    /\ nvdec' = [nvdec EXCEPT ![i] = Some(NewDecoder(i))]
    /\ read_size' = [read_size EXCEPT ![i] = InitReadSize]
    /\ rt' = [rt EXCEPT ![i] = 0]
    /\ fd' = [fd EXCEPT ![i] = 0]
    /\ wpc' = [wpc EXCEPT ![i] = "Head"]
    /\ UNCHANGED dvars
    /\ UNCHANGED <<params, proc, bits, reads, packets, decoded, exc, out, surfs>>

\* head of the loop: pipe read underflow protection
LoopHead(i) ==
    /\ wpc[i] = "Head"
    /\ IF read_size[i] = 0
       THEN IF fd[i] = 0
            THEN \* ZeroDivisionError, not caught
                 /\ wpc' = [wpc EXCEPT ![i] = "Crashed"]
                 /\ exc' = [exc EXCEPT ![i] = Some(<<"ZeroDivisionError">>)]
                 /\ UNCHANGED <<read_size, rt, fd>>
            ELSE LET q == AvgReadSize(rt[i], fd[i])
                 IN  /\ read_size' = [read_size EXCEPT ![i] = q]
                     /\ rt' = [rt EXCEPT ![i] = q]
                     /\ fd' = [fd EXCEPT ![i] = 1]
                     /\ wpc' = [wpc EXCEPT ![i] = "Read"]
                     /\ UNCHANGED exc
       ELSE /\ wpc' = [wpc EXCEPT ![i] = "Read"]
            /\ UNCHANGED <<read_size, rt, fd, exc>>
    /\ UNCHANGED dvars
    /\ UNCHANGED <<params, proc, nvdec, bits, reads, packets, decoded, out, surfs>>

\* bits = proc.stdout.read(read_size); stop on an empty result, else count it
ReadPipe(i) ==
    /\ wpc[i] = "Read"
    /\ LET n == ReadLen(read_size[i], Val(proc[i]).stdout)
       IN  /\ bits' = [bits EXCEPT ![i] = n]
           /\ proc' = [proc EXCEPT ![i] =
                         Some([Val(proc[i]) EXCEPT !.stdout = @ - n])]
           /\ IF n = 0
              THEN /\ out' = [out EXCEPT ![i] =
                                Append(@, "Can't read data from pipe")]
                   /\ wpc' = [wpc EXCEPT ![i] = "Stopped"]
                   /\ UNCHANGED <<rt, reads>>
              ELSE /\ rt' = [rt EXCEPT ![i] = @ + n]
                   /\ reads' = [reads EXCEPT ![i] = Append(@, n)]
                   /\ wpc' = [wpc EXCEPT ![i] = "Decode"]
                   /\ UNCHANGED out
    /\ UNCHANGED dvars
    /\ UNCHANGED <<params, nvdec, read_size, fd, packets, decoded, exc, surfs>>

\* a loop that takes "no surface" for the end of the stream
AfterDecode_EmptyStops(kind, fps) ==
    CASE kind = "surface" -> IF fps = 0 THEN "Crashed" ELSE "Head"
      [] kind = "empty"   -> "Stopped"
      [] kind = "hwreset" -> "Respawn"
      [] OTHER            -> "Crashed"

\* a loop that submits the same packet again after a hardware reset
AfterDecode_Retry(kind, fps) ==
    CASE kind = "surface" -> IF fps = 0 THEN "Crashed" ELSE "Head"
      [] kind = "empty"   -> "Head"
      [] kind = "hwreset" -> "Decode"
      [] OTHER            -> "Crashed"

\* where the loop goes after a decode call with the given outcome
AfterDecode(kind, fps) ==
    CASE kind = "surface" -> IF fps = 0 THEN "Crashed" ELSE "Head"
      [] kind = "empty"   -> "Head"
      [] kind = "hwreset" -> "Respawn"
      [] OTHER            -> "Crashed"

\* fd += 1 moved out of the test for a surface: every returned call counts
Decode_CountsEmpty(i) ==
    /\ wpc[i] = "Decode"
    /\ \E o \in Outcomes :
         LET fps == IntFps(Val(params[i]).framerate)
             nxt == AfterDecode(o.kind, fps)
         IN  /\ packets' = [packets EXCEPT ![i] = Append(@, bits[i])]
             /\ decoded' = [decoded EXCEPT ![i] = o]
             /\ wpc' = [wpc EXCEPT ![i] = nxt]
             /\ IF o.kind = "surface"
                THEN /\ surfs' = [surfs EXCEPT ![i] = @ + 1]
                     /\ out' = IF fps # 0 /\ (fd[i] + 1) % fps = 0
                               THEN [out EXCEPT ![i] = Append(@, pool[i].name)]
                               ELSE out
                ELSE UNCHANGED <<out, surfs>>
             /\ fd' = IF o.kind \in {"surface", "empty"}
                      THEN [fd EXCEPT ![i] = @ + 1]
                      ELSE fd
             /\ read_size' = IF o.kind = "surface"
                             THEN [read_size EXCEPT ![i] = Tighten(@, o.bsl)]
                             ELSE read_size
             /\ exc' = IF nxt = "Crashed"
                       THEN [exc EXCEPT ![i] =
                               Some(IF o.kind = "surface"
                                    THEN <<"ZeroDivisionError">>
                                    ELSE <<"Exception">>)]
                       ELSE exc
    /\ UNCHANGED dvars
    /\ UNCHANGED <<params, proc, nvdec, rt, bits, reads>>

\* the read size tightened after every returned call, surface or not
Decode_TightenAlways(i) ==
    /\ wpc[i] = "Decode"
    /\ \E o \in Outcomes :
         LET fps == IntFps(Val(params[i]).framerate)
             nxt == AfterDecode(o.kind, fps)
         IN  /\ packets' = [packets EXCEPT ![i] = Append(@, bits[i])]
             /\ decoded' = [decoded EXCEPT ![i] = o]
             /\ wpc' = [wpc EXCEPT ![i] = nxt]
             /\ IF o.kind = "surface"
                THEN /\ surfs' = [surfs EXCEPT ![i] = @ + 1]
                     /\ out' = IF fps # 0 /\ (fd[i] + 1) % fps = 0
                               THEN [out EXCEPT ![i] = Append(@, pool[i].name)]
                               ELSE out
                ELSE UNCHANGED <<out, surfs>>
             /\ fd' = IF o.kind = "surface"
                      THEN [fd EXCEPT ![i] = @ + 1]
                      ELSE fd
             /\ read_size' = IF o.kind \in {"surface", "empty"}
                             THEN [read_size EXCEPT ![i] = Tighten(@, o.bsl)]
                             ELSE read_size
             /\ exc' = IF nxt = "Crashed"
                       THEN [exc EXCEPT ![i] =
                               Some(IF o.kind = "surface"
                                    THEN <<"ZeroDivisionError">>
                                    ELSE <<"Exception">>)]
                       ELSE exc
    /\ UNCHANGED dvars
    /\ UNCHANGED <<params, proc, nvdec, rt, bits, reads>>

\* surf = nvdec.DecodeSurfaceFromPacket(enc_packet, pkt_data) and what follows
Decode(i) ==
    /\ wpc[i] = "Decode"
    /\ \E o \in Outcomes :
         LET fps == IntFps(Val(params[i]).framerate)
             nxt == AfterDecode(o.kind, fps)
         IN  /\ packets' = [packets EXCEPT ![i] = Append(@, bits[i])]
             /\ decoded' = [decoded EXCEPT ![i] = o]
             /\ wpc' = [wpc EXCEPT ![i] = nxt]
             /\ IF o.kind = "surface"
                THEN /\ fd' = [fd EXCEPT ![i] = @ + 1]
                     /\ surfs' = [surfs EXCEPT ![i] = @ + 1]
                     /\ read_size' = [read_size EXCEPT ![i] = Tighten(@, o.bsl)]
                     /\ out' = IF fps # 0 /\ (fd[i] + 1) % fps = 0
                               THEN [out EXCEPT ![i] = Append(@, pool[i].name)]
                               ELSE out
                ELSE UNCHANGED <<fd, read_size, out, surfs>>
             /\ exc' = IF nxt = "Crashed"
                       THEN [exc EXCEPT ![i] =
                               Some(IF o.kind = "surface"
                                    THEN <<"ZeroDivisionError">>
                                    ELSE <<"Exception">>)]
                       ELSE exc
    /\ UNCHANGED dvars
    /\ UNCHANGED <<params, proc, nvdec, rt, bits, reads>>

\* a respawn that replaces one decoder shared by every worker
Respawn_Shared(i) ==
    /\ wpc[i] = "Respawn"
    /\ nvdec' = [j \in Workers |->
                   IF IsSome(nvdec[j]) THEN Some(NewDecoder(i)) ELSE nvdec[j]]
    /\ wpc' = [wpc EXCEPT ![i] = "Head"]
    /\ UNCHANGED dvars
    /\ UNCHANGED <<params, proc, read_size, rt, fd, bits, reads, packets,
                   decoded, exc, out, surfs>>

\* a respawn that also starts the read-size adaptation afresh
Respawn_ResetsLoop(i) ==
    /\ wpc[i] = "Respawn"
    /\ nvdec' = [nvdec EXCEPT ![i] = Some(NewDecoder(i))]
    /\ read_size' = [read_size EXCEPT ![i] = InitReadSize]
    /\ rt' = [rt EXCEPT ![i] = 0]
    /\ fd' = [fd EXCEPT ![i] = 0]
    /\ wpc' = [wpc EXCEPT ![i] = "Head"]
    /\ UNCHANGED dvars
    /\ UNCHANGED <<params, proc, bits, reads, packets, decoded, exc, out, surfs>>

\* except nvc.HwResetException: nvdec = nvc.PyNvDecoder(w, h, f, c, g); continue
Respawn(i) ==
    /\ wpc[i] = "Respawn"
    /\ nvdec' = [nvdec EXCEPT ![i] = Some(NewDecoder(i))]
    /\ wpc' = [wpc EXCEPT ![i] = "Head"]
    /\ UNCHANGED dvars
    /\ UNCHANGED <<params, proc, read_size, rt, fd, bits, reads, packets,
                   decoded, exc, out, surfs>>

WorkerStep(i) ==
    \/ Probe(i)
    \/ Popen(i)
    \/ CreateDecoder(i)
    \/ LoopHead(i)
    \/ ReadPipe(i)
    \/ Decode(i)
    \/ Respawn(i)

Next ==
    \/ UsageExit
    \/ ParseArgs
    \/ StartWorker
    \/ JoinWorker
    \/ \E i \in Workers : WorkerStep(i)

Spec == Init /\ [][Next]_vars

SpecLoop == InitLoop /\ [][Next]_vars

(* ======================= properties of the decode loop ================= *)
\* worker i completes a decode call in this step
DecodeStep(i) == wpc[i] = "Decode" /\ packets'[i] # packets[i]

\* worker i leaves the head of the loop in this step
HeadStep(i) == wpc[i] = "Head" /\ wpc'[i] # "Head"

RECURSIVE SumSeq(_)
SumSeq(q) == IF q = << >> THEN 0 ELSE q[1] + SumSeq(Tail(q))

CantRead == "Can't read data from pipe"

\* C1 as stated: after a decode call that produces a non-empty surface with
\* bytesConsumed = k, read_size equals k, whatever read_size was before.
C1_AsStated ==
    [][\A i \in Workers :
         (DecodeStep(i) /\ decoded'[i].kind = "surface")
            => read_size'[i] = decoded'[i].bsl]_vars

\* C1 amended: after such a call read_size is the smaller of k and its
\* previous value (k when k is not larger, unchanged otherwise), and a
\* non-zero read_size passes the head of the loop unchanged, so the next pipe
\* read returns at most that many bytes.
C1_Tightens ==
    [][\A i \in Workers :
         /\ (DecodeStep(i) /\ decoded'[i].kind = "surface")
               => /\ read_size'[i] <= read_size[i]
                  /\ read_size'[i] <= decoded'[i].bsl
                  /\ read_size'[i] \in {read_size[i], decoded'[i].bsl}
         /\ (HeadStep(i) /\ read_size[i] # 0)
               => (wpc'[i] = "Read" /\ read_size'[i] = read_size[i])
         /\ (wpc[i] = "Read" /\ wpc'[i] # "Read")
               => (bits'[i] <= read_size[i] /\ read_size'[i] = read_size[i])]_vars

\* k was consumed twice in a row and the next read is about to ask for k bytes
C1_Witness ==
    \E i \in Workers :
       /\ wpc[i] = "Read"
       /\ Len(packets[i]) >= 3
       /\ decoded[i].kind = "surface"
       /\ decoded[i].bsl = read_size[i]
       /\ read_size[i] > 0
       /\ read_size[i] < InitReadSize
       /\ bits[i] = read_size[i]

\* C2: with read_size = 0 and fd > 0 at the head of the loop, the iteration
\* sets read_size to the integer quotient rt / fd and the counters to
\* (read_size, 1) before it reads from the pipe, and no exception is raised.
C2_UnderflowRecovery ==
    [][\A i \in Workers :
         (HeadStep(i) /\ read_size[i] = 0 /\ fd[i] > 0)
            => /\ wpc'[i] = "Read"
               /\ exc'[i] = None
               /\ read_size'[i] * fd[i] <= rt[i]
               /\ rt[i] < (read_size'[i] + 1) * fd[i]
               /\ rt'[i] = read_size'[i]
               /\ fd'[i] = 1
               /\ proc'[i] = proc[i]
               /\ reads'[i] = reads[i]]_vars

\* recovery has run over two frames and a byte count that 2 does not divide
C2_Witness ==
    \E i \in Workers :
       /\ wpc[i] = "Read"
       /\ reads[i] = <<InitReadSize, 3>>
       /\ decoded[i] = [kind |-> "surface", bsl |-> 0]
       /\ fd[i] = 1
       /\ rt[i] = (InitReadSize + 3) \div 2
       /\ read_size[i] = rt[i]

\* C3: a HwResetException raised by the decode call never ends the worker:
\* the worker builds a new decoder with the width, height, pixel format,
\* codec and gpu id of the one it replaces (those of params and gpu_id) and
\* goes on with the next iteration.
C3_RespawnSameConfig ==
    [][\A i \in Workers :
         /\ (DecodeStep(i) /\ decoded'[i].kind = "hwreset")
               => (wpc'[i] = "Respawn" /\ exc'[i] = None)
         /\ (wpc[i] = "Respawn" /\ wpc'[i] # "Respawn")
               => /\ wpc'[i] = "Head"
                  /\ exc'[i] = None
                  /\ IsSome(nvdec'[i])
                  /\ Val(nvdec'[i]).id # Val(nvdec[i]).id
                  /\ LET n == Val(nvdec'[i])
                         o == Val(nvdec[i])
                         p == Val(params[i])
                     IN  /\ <<n.width, n.height, n.format, n.codec, n.gpu_id>>
                              = <<o.width, o.height, o.format, o.codec, o.gpu_id>>
                         /\ <<n.width, n.height, n.format, n.codec, n.gpu_id>>
                              = <<p.width, p.height, p.format, p.codec,
                                  Val(gpuID)>>]_vars

\* two faults in a row have been survived
C3_Witness ==
    \E i \in Workers :
       /\ wpc[i] = "Head"
       /\ decoded[i].kind = "hwreset"
       /\ IsSome(nvdec[i])
       /\ Val(nvdec[i]).id >= 3

\* C4: a worker gets to Stopped only from a pipe read that returned zero
\* bytes; it then prints the message and submits no packet.
C4_StopOnlyOnEmptyRead ==
    [][\A i \in Workers :
         (wpc'[i] = "Stopped" /\ wpc[i] # "Stopped")
            => /\ wpc[i] = "Read"
               /\ bits'[i] = 0
               /\ packets'[i] = packets[i]
               /\ out'[i] = Append(out[i], CantRead)
               /\ exc'[i] = None]_vars

\* stopped after packets that met every outcome the loop survives
C4_Witness ==
    \E i \in Workers :
       /\ wpc[i] = "Stopped"
       /\ bits[i] = 0
       /\ Len(packets[i]) >= 2
       /\ decoded[i].kind \in {"surface", "empty", "hwreset"}

C6_StartsAllJoinsAll ==
    /\ Len(pool) <= Len(argv) - 2 \/ pool = << >>
    /\ \A k \in 1..Len(pool) :
          /\ pool[k].url = argv[k + 2]
          /\ pool[k].gpu_id = Val(gpuID)
    /\ \A i \in Workers : (wpc[i] # "NotStarted") <=> (i <= Len(pool))
    /\ dpc = "done"
          => /\ Len(pool) = Len(argv) - 2
             /\ \A k \in 1..Len(pool) : Terminated(k)
    /\ exitStatus = Some(0) => dpc = "done"

\* the driver has returned after two workers given the same URL
C6_Witness ==
    /\ dpc = "done"
    /\ Len(pool) = 2
    /\ pool[1].url = pool[2].url
    /\ wpc[1] = "Stopped"
    /\ wpc[2] = "Stopped"

\* C7: with fewer than one URL the driver exits with status 1, having parsed
\* no gpu id and started no worker; with a URL it never takes that exit.
C7_UsageExit ==
    /\ (Len(argv) < 3 /\ dpc # "main")
          => (dpc = "usage" /\ exitStatus = Some(1))
    /\ Len(argv) < 3
          => /\ gpuID = None
             /\ pool = << >>
             /\ \A i \in Workers : wpc[i] = "NotStarted"
    /\ Len(argv) >= 3 => dpc # "usage"

\* the usage exit was taken for a command line with a gpu id and no URL
C7_Witness ==
    /\ Len(argv) = 2
    /\ dpc = "usage"
    /\ exitStatus = Some(1)

\* C8: the prober maps h264/hevc to H264/HEVC and yuv420p/yuv444p to
\* NV12/YUV444; any other codec name fails with the unsupported-codec error
\* carrying the name, a supported codec with any other pixel format fails
\* with the unsupported-pixel-format error carrying the format; a failure
\* returns no parameters.
C8_ProberMapping ==
    \A i \in Workers :
       wpc[i] \notin {"NotStarted", "Starting"} =>
          LET s == stream[i]
              codecOk == s.codec_name \in {"h264", "hevc"}
              pixOk == s.pix_fmt \in {"yuv420p", "yuv444p"}
          IN  /\ ~codecOk
                    => /\ wpc[i] = "Failed"
                       /\ params[i] = None
                       /\ Val(exc[i])[1] = "ValueError"
                       /\ Val(exc[i])[2][1] = "Unsupported codec: "
                       /\ Val(exc[i])[2][2] = s.codec_name
              /\ (codecOk /\ ~pixOk)
                    => /\ wpc[i] = "Failed"
                       /\ params[i] = None
                       /\ Val(exc[i])[1] = "ValueError"
                       /\ Val(exc[i])[2][1] = "Unsupported pixel format: "
                       /\ Val(exc[i])[2][2] = s.pix_fmt
              /\ (codecOk /\ pixOk)
                    => /\ wpc[i] # "Failed"
                       /\ IsSome(params[i])
                       /\ (s.codec_name = "h264") = (Val(params[i]).codec = "H264")
                       /\ (s.codec_name = "hevc") = (Val(params[i]).codec = "HEVC")
                       /\ (s.pix_fmt = "yuv420p") = (Val(params[i]).format = "NV12")
                       /\ (s.pix_fmt = "yuv444p") = (Val(params[i]).format = "YUV444")

\* an hevc stream in yuv444p has been probed
C8_Witness ==
    \E i \in Workers :
       /\ stream[i].codec_name = "hevc"
       /\ stream[i].pix_fmt = "yuv444p"
       /\ IsSome(params[i])
       /\ Val(params[i]).codec = "HEVC"
       /\ Val(params[i]).format = "YUV444"

\* C9: a worker whose probe fails ends without a subprocess, a decoder or a
\* pipe read; a subprocess or a decoder exists only after a successful probe.
C9_ProbeBeforeSetup ==
    \A i \in Workers :
       /\ wpc[i] = "Failed"
             => /\ proc[i] = None
                /\ nvdec[i] = None
                /\ reads[i] = << >>
                /\ bits[i] = 0
                /\ IsSome(exc[i])
       /\ (IsSome(proc[i]) \/ IsSome(nvdec[i]))
             => /\ IsSome(params[i])
                /\ wpc[i] \notin {"NotStarted", "Starting", "Failed"}
                /\ stream[i].codec_name \in {"h264", "hevc"}
                /\ stream[i].pix_fmt \in {"yuv420p", "yuv444p"}

\* a worker has failed on a vp9 stream
C9_Witness ==
    \E i \in Workers :
       /\ wpc[i] = "Failed"
       /\ stream[i].codec_name = "vp9"
       /\ proc[i] = None
       /\ nvdec[i] = None

\* everything worker i owns
WState(i) ==
    <<wpc[i], params[i], proc[i], nvdec[i], read_size[i], rt[i], fd[i],
      bits[i], reads[i], packets[i], decoded[i], exc[i], out[i], surfs[i]>>

\* C10: no step that changes one worker's loop state, decoder, pipe or any
\* other of its variables changes anything another worker owns.
C10_Isolation ==
    [][\A i \in Workers :
         (WState(i)' # WState(i))
            => \A j \in Workers \ {i} : WState(j)' = WState(j)]_vars

\* one worker has failed on its probe while another is in its decode loop
\* with a respawned decoder
C10_Witness ==
    \E i, j \in Workers :
       /\ i # j
       /\ wpc[i] = "Failed"
       /\ wpc[j] = "Head"
       /\ IsSome(nvdec[j])
       /\ Val(nvdec[j]).id >= 2


(* ================== frame effects and invariants of the loop =========== *)
\* what worker i adapts its reads with
LoopState(i) == <<read_size[i], rt[i], fd[i]>>

\* C11: a HwResetException changes only the decoder: from the submission of
\* the faulting packet (rt already counts its bytes) to the head of the next
\* iteration read_size, rt and fd keep their values and nothing is printed.
C11_ResetKeepsLoopState ==
    [][\A i \in Workers :
         /\ (DecodeStep(i) /\ decoded'[i].kind = "hwreset")
               => /\ LoopState(i)' = LoopState(i)
                  /\ out'[i] = out[i]
                  /\ rt[i] >= bits[i]
                  /\ nvdec'[i] = nvdec[i]
         /\ (wpc[i] = "Respawn" /\ wpc'[i] # "Respawn")
               => /\ wpc'[i] = "Head"
                  /\ LoopState(i)' = LoopState(i)
                  /\ out'[i] = out[i]
                  /\ nvdec'[i] # nvdec[i]
                  /\ <<params[i], proc[i]>>' = <<params[i], proc[i]>>]_vars

\* back at the head after a fault, with a tightened read size and frames
\* already counted
C11_Witness ==
    \E i \in Workers :
       /\ wpc[i] = "Head"
       /\ decoded[i].kind = "hwreset"
       /\ read_size[i] > 0
       /\ read_size[i] < InitReadSize
       /\ fd[i] >= 1
       /\ rt[i] > InitReadSize


FrameRate(i) == stream[i].framerate[1] \div stream[i].framerate[2]

\* heartbeat lines printed by worker i: all of out but the closing message
Beats(i) == Len(out[i]) - (IF wpc[i] = "Stopped" THEN 1 ELSE 0)

\* C13 as stated: with an integer frame rate F >= 1 the heartbeat is printed
\* exactly on every F-th decoded surface, underflow recoveries and hardware
\* resets included.
C13_AsStated ==
    \A i \in Workers :
       (IsSome(params[i]) /\ FrameRate(i) >= 1)
          => Beats(i) = surfs[i] \div FrameRate(i)

\* C13 amended: with F >= 1 the heartbeat is printed exactly in the
\* iterations that decode a surface and leave fd, after its increment, a
\* multiple of F.  That is every F-th decoded surface when F = 1 and, for
\* any F, as long as no underflow recovery has lowered fd; a recovery sets
\* fd back to 1 and shifts the cadence.  Hardware resets do not affect it.
C13_BeatsFollowFd ==
    [][\A i \in Workers :
         (IsSome(params[i]) /\ FrameRate(i) >= 1)
            => /\ (DecodeStep(i) /\ decoded'[i].kind = "surface")
                     => out'[i] = IF fd'[i] % FrameRate(i) = 0
                                  THEN Append(out[i], pool[i].name)
                                  ELSE out[i]
               /\ (out'[i] # out[i] /\ wpc'[i] # "Stopped")
                     => (DecodeStep(i) /\ decoded'[i].kind = "surface")
               /\ fd'[i] <= surfs'[i]
               /\ (fd'[i] = surfs'[i] \/ FrameRate(i) = 1)
                     => Beats(i)' = surfs'[i] \div FrameRate(i)]_vars

\* at 2 frames per second: a beat on the second surface, an underflow
\* recovery, and the next beat on the third surface
C13_Witness ==
    \E i \in Workers :
       /\ IsSome(params[i])
       /\ FrameRate(i) = 2
       /\ surfs[i] = 3
       /\ Beats(i) = 2
       /\ fd[i] = 2


(* ====================== invariants of the read size ==================== *)
\* worker i is inside the decode loop
InLoop(i) == wpc[i] \in {"Head", "Read", "Decode", "Respawn"}

\* C14: in the loop read_size = 0 implies fd >= 1, at the head of an
\* iteration in particular, so rt / fd is never evaluated with fd = 0: a
\* ZeroDivisionError can only come from fd % fps with a frame rate below 1.
C14_NoZeroDivisor ==
    \A i \in Workers :
       /\ (InLoop(i) /\ read_size[i] = 0) => fd[i] >= 1
       /\ (wpc[i] = "Crashed" /\ exc[i] = Some(<<"ZeroDivisionError">>))
             => (FrameRate(i) = 0 /\ decoded[i].kind = "surface")

\* the read size has underflowed at the head of an iteration, after two frames
C14_Witness ==
    \E i \in Workers :
       /\ wpc[i] = "Head"
       /\ read_size[i] = 0
       /\ fd[i] >= 2


\* C15: the pipe is never read with a size of 0: rt >= fd throughout the
\* loop, so underflow recovery yields at least 1, every read asks for at
\* least 1 byte, and a zero-byte result means the pipe is at end of file.
C15_NeverReadsZero ==
    \A i \in Workers :
       /\ IsSome(nvdec[i]) => rt[i] >= fd[i]
       /\ wpc[i] = "Read" => read_size[i] >= 1
       /\ wpc[i] = "Stopped"
             => (read_size[i] >= 1 /\ Val(proc[i]).stdout = 0)

\* underflow recovery has produced the smallest read size there is
C15_Witness ==
    \E i \in Workers :
       /\ wpc[i] = "Read"
       /\ decoded[i] = [kind |-> "surface", bsl |-> 0]
       /\ read_size[i] = 1
       /\ rt[i] = 1
       /\ fd[i] = 1


\* C16 as stated: the read size never exceeds the initial 4096 bytes.
C16_AsStated ==
    \A i \in Workers : read_size[i] <= InitReadSize

\* C16 amended: no decode outcome increases read_size; it grows only in an
\* underflow recovery, from 0 to rt / fd, which can exceed 4096; it never
\* exceeds the larger of 4096 and the number of bytes read so far.
C16_GrowsOnlyInRecovery ==
    [][\A i \in Workers :
         /\ DecodeStep(i) => read_size'[i] <= read_size[i]
         /\ (InLoop(i) /\ read_size'[i] > read_size[i])
               => /\ HeadStep(i)
                  /\ read_size[i] = 0
                  /\ read_size'[i] * fd[i] <= rt[i]
         /\ read_size'[i] <= InitReadSize
               \/ read_size'[i] <= SumSeq(reads'[i])]_vars

\* underflow recovery has set the read size above 4096
C16_Witness ==
    \E i \in Workers :
       /\ wpc[i] = "Read"
       /\ read_size[i] > InitReadSize
       /\ decoded[i] = [kind |-> "surface", bsl |-> 0]


(* ============================ termination ============================== *)
\* every worker process that can take a step eventually takes one: pipe reads
\* and decode calls return
SpecLoopFair ==
    InitLoop /\ [][Next]_vars /\ \A i \in Workers : WF_vars(WorkerStep(i))

\* C17: on a pipe that holds finitely many bytes and then closes, a worker
\* whose pipe reads and decode calls all return (a surface, no surface or a
\* hardware-reset fault, with any bsl) eventually reaches Stopped.
C17_AsStated ==
    \A i \in Workers :
       InLoop(i) ~> (wpc[i] = "Stopped" \/ decoded[i].kind = "error")

====
